---------------------------- MODULE Spec2Model ----------------------------
(***************************************************************************)
(* A model of the website: the query preparer (prepareFTSQuery), the       *)
(* two-collection searcher and the rank merge (handleSearch,               *)
(* sortResultsByRank) of search.go with the tag lookup of main.go, the     *)
(* admin handlers that write the posts and pages tables, the FTS5 triggers *)
(* of migrations/2_add_search.sql that mirror those tables into the        *)
(* indexes, the login and requireAuth of the admin routes, and the public  *)
(* handlers of site.go, rss.go and the sitemap.                            *)
(*                                                                         *)
(* A Go string is a sequence of one-character strings, so that trimming,   *)
(* splitting and joining are computed character by character.              *)
(***************************************************************************)
EXTENDS Integers, Sequences, FiniteSets

VARIABLES
    posts,       \* posts table: id -> [title, content, published]
    postsFts,    \* posts_fts index: rowid -> set of <<column, token>> postings
    nextPostId,  \* next id the posts table hands out
    pages,       \* pages table: id -> [title, content, published]
    pagesFts,    \* pages_fts index: rowid -> set of <<column, token>> postings
    nextPageId,  \* next id the pages table hands out
    tags,        \* tags table: name -> id
    postTags,    \* post_tags table: set of <<post_id, tag_id>>
    authTokens,  \* the auth_token values handleLogin has issued
    cookie,      \* auth_token cookie of the request: <<>> when it has none
    route,       \* route of the last admin or public request served
    shown,       \* rows a public handler gave to its template or feed
    pc,          \* position of the request being served
    q,           \* r.URL.Query().Get("q")
    ftsQuery,    \* prepareFTSQuery(query)
    issued,      \* the index queries this request has issued
    postErr,     \* err of the posts query
    pageErr,     \* err of the pages query
    tagErrs,     \* ids of the posts whose getPostTags query returned an error
    postRows,    \* results appended from postRows
    pageRows,    \* results appended from pageRows
    results,     \* data["Results"], handed to the template
    total,       \* data["Total"]
    status,      \* HTTP status of the response (0: none yet)
    form,        \* form values of the last admin POST: csrf_token, id, tags
    uploads,     \* names of the files uploadToBunny has stored
    edit,        \* position of the handleEditPost request being served: its
                 \* pc, the names left to link, whether a statement returned
                 \* an error, and the tables as they were when it arrived
    loggedOut,   \* the auth_token values presented to handleLogout
    schema_migrations,  \* schema_migrations table: the recorded versions
    migration    \* position of runMigrations: its pc, the names ReadDir
                 \* gave, latestVersion, the index of the next file, the
                 \* versions this run has applied, the version whose Exec
                 \* failed (0: none), and whether the run before it returned
                 \* nil with the same files

vars == <<posts, postsFts, nextPostId, pages, pagesFts, nextPageId, tags,
          postTags, authTokens, cookie, route, shown, pc, q, ftsQuery, issued, postErr, pageErr, tagErrs,
          postRows, pageRows, results, total, status, form, uploads, edit,
          loggedOut, schema_migrations, migration>>

dbVars == <<posts, postsFts, nextPostId, pages, pagesFts, nextPageId, tags,
            postTags>>

webVars == <<authTokens, cookie, route, shown>>

adminVars == <<form, uploads, edit, loggedOut>>

migVars == <<schema_migrations, migration>>

reqVars == <<pc, q, ftsQuery, issued, postErr, pageErr, tagErrs, postRows,
             pageRows, results, total, status>>

-----------------------------------------------------------------------------
(* Bounds of the model *)

MaxQueryLen == 4    \* longest raw query enumerated character by character
MaxPostId == 1      \* ids the posts table hands out
MaxPageId == 1      \* ids the pages table hands out
MaxRank == 1        \* ranks are drawn from -MaxRank..0
MaxSortLen == 4     \* longest result list handed to the sort on its own
MaxRows == 52       \* most rows per collection in the large-table runs
MaxTaggedPosts == 2 \* posts of the tables whose posts carry tags
MaxTags == 2        \* rows of the tags table there
MaxTokens == 2      \* distinct values generateToken gives
MaxSitePosts == 2   \* posts of the tables the public handlers read

Limit == 50         \* LIMIT 50 of both queries
HomeLimit == 5      \* WHERE rn <= 5 of the home page

-----------------------------------------------------------------------------
(* strings *)

Star == "*"
Quote == "\""
Space == <<" ">>

Lower == <<"a","b","c","d","e","f","g","h","i","j","k","l","m",
           "n","o","p","q","r","s","t","u","v","w","x","y","z">>
Upper == <<"A","B","C","D","E","F","G","H","I","J","K","L","M",
           "N","O","P","Q","R","S","T","U","V","W","X","Y","Z">>

BlankOnly(c) == c = " "

\* unicode.IsSpace, on the characters the model uses
IsSpace(c) == c \in {" ", "\t", "\n"}

UpperChar(c) ==
    IF \E i \in DOMAIN Lower : Lower[i] = c
    THEN Upper[CHOOSE i \in DOMAIN Lower : Lower[i] = c]
    ELSE c

\* strings.ToUpper
ToUpper(s) == [i \in DOMAIN s |-> UpperChar(s[i])]

RECURSIVE TrimLeft(_)
TrimLeft(s) ==
    IF s # <<>> /\ IsSpace(Head(s)) THEN TrimLeft(Tail(s)) ELSE s

RECURSIVE TrimRight(_)
TrimRight(s) ==
    IF s # <<>> /\ IsSpace(s[Len(s)])
    THEN TrimRight(SubSeq(s, 1, Len(s) - 1))
    ELSE s

\* strings.TrimSpace
TrimSpace(s) == TrimRight(TrimLeft(s))

RECURSIVE FieldsFrom(_, _, _)
FieldsFrom(s, cur, acc) ==
    IF s = <<>>
    THEN IF cur = <<>> THEN acc ELSE Append(acc, cur)
    ELSE IF IsSpace(Head(s))
         THEN FieldsFrom(Tail(s), <<>>,
                         IF cur = <<>> THEN acc ELSE Append(acc, cur))
         ELSE FieldsFrom(Tail(s), Append(cur, Head(s)), acc)

\* strings.Fields: the maximal runs of non-space characters
Fields(s) == FieldsFrom(s, <<>>, <<>>)

RECURSIVE Join(_, _)
\* strings.Join
Join(words, sep) ==
    IF words = <<>> THEN <<>>
    ELSE IF Len(words) = 1 THEN words[1]
    ELSE words[1] \o sep \o Join(Tail(words), sep)

\* strings.HasPrefix / strings.HasSuffix with a one-character argument
HasPrefix(s, c) == s # <<>> /\ s[1] = c
HasSuffix(s, c) == s # <<>> /\ s[Len(s)] = c

\* strings.ReplaceAll(query, c, "")
RemoveAll(s, c) == SelectSeq(s, LAMBDA x : x # c)

-----------------------------------------------------------------------------
(* prepareFTSQuery, search.go *)

KeepWildcards(query) == query

StarsToSpaces(query) == [i \in DOMAIN query |->
                            IF query[i] = Star THEN " " ELSE query[i]]

\* query = strings.ReplaceAll(query, "*", "")
StripWildcards(query) == RemoveAll(query, Star)

UpperCaseOperator(word) ==
    word \in { <<"A", "N", "D">>, <<"O", "R">>, <<"N", "O", "T">> }

IsOperator(word) ==
    \/ ToUpper(word) = <<"A", "N", "D">>
    \/ ToUpper(word) = <<"O", "R">>
    \/ ToUpper(word) = <<"N", "O", "T">>

LongQuotedPhrase(word) ==
    Len(word) >= 2 /\ word[1] = Quote /\ word[Len(word)] = Quote

IsQuotedPhrase(word) == HasPrefix(word, Quote) /\ HasSuffix(word, Quote)

KeepWord(word) == word

\* the body of the loop over words
PrepareWord(word) ==
    IF IsOperator(word) THEN word
    ELSE IF IsQuotedPhrase(word) THEN word
    ELSE Append(word, Star)

prepareFTSQuery(query) ==
    LET trimmed == TrimSpace(StripWildcards(query))
        words == Fields(trimmed)
    IN  IF trimmed = <<>> THEN trimmed
        ELSE Join([i \in DOMAIN words |-> PrepareWord(words[i])], Space)

-----------------------------------------------------------------------------
(* the posts and pages tables and their FTS5 indexes,                      *)
(* migrations/2_add_search.sql                                             *)

\* the texts the admin forms submit
Titles == { <<"g", "o">> }
Contents == { <<"g", "o">>, <<"s", "q", "l">> }

\* published := r.FormValue("published") == "on", stored as 0 or 1
BoolToInt(b) == IF b THEN 1 ELSE 0

Row(title, content, published) ==
    [title |-> title, content |-> content, published |-> BoolToInt(published)]

Rows == { Row(t, c, p) : t \in Titles, c \in Contents, p \in BOOLEAN }

EmptyTable == [id \in {} |-> Row(<<>>, <<>>, FALSE)]
EmptyIndex == [id \in {} |-> {}]

LowerChar(c) ==
    IF \E i \in DOMAIN Upper : Upper[i] = c
    THEN Lower[CHOOSE i \in DOMAIN Upper : Upper[i] = c]
    ELSE c

ToLower(s) == [i \in DOMAIN s |-> LowerChar(s[i])]

\* the tokens the index holds for a column value (case folded)
Tokenize(text) ==
    LET words == Fields(text) IN { ToLower(words[i]) : i \in DOMAIN words }

\* the index entries of one row: fts5(title, content)
Postings(title, content) ==
    { <<"title", t>> : t \in Tokenize(title) }
        \cup { <<"content", t>> : t \in Tokenize(content) }

PostingsOf(fts, rowid) == IF rowid \in DOMAIN fts THEN fts[rowid] ELSE {}

SetEntry(f, k, v) == [x \in DOMAIN f \cup {k} |-> IF x = k THEN v ELSE f[x]]

DropEntry(f, k) == [x \in DOMAIN f \ {k} |-> f[x]]

\* INSERT INTO posts_fts(rowid, title, content) SELECT id, title, content FROM posts
FtsPopulate(table) ==
    [id \in DOMAIN table |-> Postings(table[id].title, table[id].content)]

\* posts_ai / pages_ai: INSERT INTO posts_fts(rowid, title, content) VALUES (new...)
FtsInsert(fts, rowid, title, content) ==
    SetEntry(fts, rowid, PostingsOf(fts, rowid) \cup Postings(title, content))

\* What a DELETE or UPDATE of an index row removes.  The index is declared
\* content=posts, content_rowid=id: it keeps no copy of the text, and reads the
\* row to un-index from the content table as it is when the statement runs.
FtsRemove(fts, table, rowid) ==
    IF rowid \in DOMAIN table /\ rowid \in DOMAIN fts
    THEN LET rest == fts[rowid]
                       \ Postings(table[rowid].title, table[rowid].content)
         IN  IF rest = {} THEN DropEntry(fts, rowid)
             ELSE SetEntry(fts, rowid, rest)
    ELSE fts

\* posts_ad / pages_ad, AFTER DELETE: DELETE FROM posts_fts WHERE rowid = old.id
\* (table is the content table after the delete)
FtsDelete(fts, table, rowid) == FtsRemove(fts, table, rowid)

\* posts_au / pages_au, AFTER UPDATE:
\* UPDATE posts_fts SET title = new.title, content = new.content WHERE rowid = old.id
\* (table is the content table after the update)
FtsUpdate(fts, table, rowid, title, content) ==
    IF rowid \in DOMAIN table
    THEN FtsInsert(FtsRemove(fts, table, rowid), rowid, title, content)
    ELSE fts

-----------------------------------------------------------------------------
(* tags, updatePostTags *)

TagInputs == { <<>>, <<"t">>, <<" ", "t", ",">> }

RECURSIVE SplitFrom(_, _, _, _)
SplitFrom(s, sep, cur, acc) ==
    IF s = <<>> THEN Append(acc, cur)
    ELSE IF Head(s) = sep
         THEN SplitFrom(Tail(s), sep, <<>>, Append(acc, cur))
         ELSE SplitFrom(Tail(s), sep, Append(cur, Head(s)), acc)

\* strings.Split(s, sep) with a one-character separator
Split(s, sep) == SplitFrom(s, sep, <<>>, <<>>)

RECURSIVE LinkTags(_, _, _, _)
\* the loop of updatePostTags over the split names
LinkTags(names, postID, tagTable, links) ==
    IF names = <<>> THEN [tags |-> tagTable, postTags |-> links]
    ELSE LET tag == TrimSpace(Head(names)) IN
         IF tag = <<>> THEN LinkTags(Tail(names), postID, tagTable, links)
         ELSE LET known == tag \in DOMAIN tagTable
                  tagID == IF known THEN tagTable[tag]
                           ELSE Cardinality(DOMAIN tagTable) + 1
                  table2 == IF known THEN tagTable
                            ELSE SetEntry(tagTable, tag, tagID)
              IN  LinkTags(Tail(names), postID, table2,
                           links \cup { <<postID, tagID>> })

KeepLinks(postID, links) == links

\* DELETE FROM post_tags WHERE post_id = ?
unlinkPost(postID, links) == { l \in links : l[1] # postID }

updatePostTags(postID, tagsStr, tagTable, links) ==
    LET cleared == unlinkPost(postID, links) IN
    IF tagsStr = <<>> THEN [tags |-> tagTable, postTags |-> cleared]
    ELSE LinkTags(Split(tagsStr, ","), postID, tagTable, cleared)

\* the byte of a character, for the characters of a tag name
CharCode(c) ==
    IF \E i \in DOMAIN Lower : Lower[i] = c
    THEN 96 + (CHOOSE i \in DOMAIN Lower : Lower[i] = c)
    ELSE IF \E i \in DOMAIN Upper : Upper[i] = c
    THEN 64 + (CHOOSE i \in DOMAIN Upper : Upper[i] = c)
    ELSE 32

RECURSIVE NameLess(_, _)
\* a sorts before b: the comparison of two text values, byte by byte
NameLess(a, b) ==
    IF b = <<>> THEN FALSE
    ELSE IF a = <<>> THEN TRUE
    ELSE IF CharCode(Head(a)) # CharCode(Head(b))
         THEN CharCode(Head(a)) < CharCode(Head(b))
         ELSE NameLess(Tail(a), Tail(b))

RECURSIVE NamesDescending(_)
NamesDescending(names) ==
    IF names = {} THEN <<>>
    ELSE LET last == CHOOSE n \in names :
                         \A other \in names \ {n} : NameLess(other, n)
         IN  <<last>> \o NamesDescending(names \ {last})

RECURSIVE NamesAscending(_)
\* ORDER BY t.name asc
NamesAscending(names) ==
    IF names = {} THEN <<>>
    ELSE LET first == CHOOSE n \in names :
                          \A other \in names \ {n} : NameLess(n, other)
         IN  <<first>> \o NamesAscending(names \ {first})

\* SELECT t.name FROM tags t JOIN post_tags pt ON t.id = pt.tag_id
\* WHERE pt.post_id = ?
LinkedNames(postID, tagTable, links) ==
    { n \in DOMAIN tagTable : <<postID, tagTable[n]>> \in links }

\* getPostTags, main.go: an empty list when the query returns an error
getPostTags(postID, tagTable, links, err) ==
    IF err THEN <<>>
    ELSE NamesAscending(LinkedNames(postID, tagTable, links))

-----------------------------------------------------------------------------
(* the admin handlers that write the tables *)

\* handleNewPost, POST
writeNewPost(title, content, published, tagsStr) ==
    /\ nextPostId <= MaxPostId
    /\ LET id == nextPostId
           linked == updatePostTags(id, tagsStr, tags, postTags)
       IN  /\ posts' = SetEntry(posts, id, Row(title, content, published))
           /\ postsFts' = FtsInsert(postsFts, id, title, content)
           /\ nextPostId' = id + 1
           /\ tags' = linked.tags
           /\ postTags' = linked.postTags
    /\ UNCHANGED <<pages, pagesFts, nextPageId>>

NewPost(title, content, published, tagsStr) ==
    /\ writeNewPost(title, content, published, tagsStr)
    /\ UNCHANGED reqVars
    /\ UNCHANGED webVars
    /\ UNCHANGED adminVars
    /\ UNCHANGED migVars

\* handleEditPost, POST: id is strconv.Atoi of the path value (0 when it fails)
writeEditPost(id, title, content, published, tagsStr) ==
    /\ LET updated == IF id \in DOMAIN posts
                      THEN SetEntry(posts, id, Row(title, content, published))
                      ELSE posts
           linked == updatePostTags(id, tagsStr, tags, postTags)
       IN  /\ posts' = updated
           /\ postsFts' = FtsUpdate(postsFts, updated, id, title, content)
           /\ tags' = linked.tags
           /\ postTags' = linked.postTags
    /\ UNCHANGED <<nextPostId, pages, pagesFts, nextPageId>>

EditPost(id, title, content, published, tagsStr) ==
    /\ writeEditPost(id, title, content, published, tagsStr)
    /\ UNCHANGED reqVars
    /\ UNCHANGED webVars
    /\ UNCHANGED adminVars
    /\ UNCHANGED migVars

\* handleDeletePost: DELETE FROM posts WHERE id = ?
writeDeletePost(id) ==
    /\ id \in DOMAIN posts
    /\ LET remaining == DropEntry(posts, id) IN
           /\ posts' = remaining
           /\ postsFts' = FtsDelete(postsFts, remaining, id)
    /\ UNCHANGED <<nextPostId, pages, pagesFts, nextPageId, tags, postTags>>

DeletePost(id) ==
    /\ writeDeletePost(id)
    /\ UNCHANGED reqVars
    /\ UNCHANGED webVars
    /\ UNCHANGED adminVars
    /\ UNCHANGED migVars

\* handleNewPage, POST
writeNewPage(title, content, published) ==
    /\ nextPageId <= MaxPageId
    /\ LET id == nextPageId IN
           /\ pages' = SetEntry(pages, id, Row(title, content, published))
           /\ pagesFts' = FtsInsert(pagesFts, id, title, content)
           /\ nextPageId' = id + 1
    /\ UNCHANGED <<posts, postsFts, nextPostId, tags, postTags>>

NewPage(title, content, published) ==
    /\ writeNewPage(title, content, published)
    /\ UNCHANGED reqVars
    /\ UNCHANGED webVars
    /\ UNCHANGED adminVars
    /\ UNCHANGED migVars

\* handleEditPage, POST
writeEditPage(id, title, content, published) ==
    /\ id \in DOMAIN pages
    /\ LET updated == SetEntry(pages, id, Row(title, content, published)) IN
           /\ pages' = updated
           /\ pagesFts' = FtsUpdate(pagesFts, updated, id, title, content)
    /\ UNCHANGED <<nextPageId, posts, postsFts, nextPostId, tags, postTags>>

EditPage(id, title, content, published) ==
    /\ writeEditPage(id, title, content, published)
    /\ UNCHANGED reqVars
    /\ UNCHANGED webVars
    /\ UNCHANGED adminVars
    /\ UNCHANGED migVars

\* handleDeletePage: DELETE FROM pages WHERE id = ?
writeDeletePage(id) ==
    /\ id \in DOMAIN pages
    /\ LET remaining == DropEntry(pages, id) IN
           /\ pages' = remaining
           /\ pagesFts' = FtsDelete(pagesFts, remaining, id)
    /\ UNCHANGED <<nextPageId, posts, postsFts, nextPostId, tags, postTags>>

DeletePage(id) ==
    /\ writeDeletePage(id)
    /\ UNCHANGED reqVars
    /\ UNCHANGED webVars
    /\ UNCHANGED adminVars
    /\ UNCHANGED migVars

-----------------------------------------------------------------------------
(* the MATCH expression, as FTS5 evaluates the prepared query *)

IsLetter(c) ==
    \/ \E i \in DOMAIN Lower : Lower[i] = c
    \/ \E i \in DOMAIN Upper : Upper[i] = c

\* a bareword followed by the prefix marker: go*
IsPrefixTerm(tok) ==
    /\ Len(tok) >= 2
    /\ tok[Len(tok)] = Star
    /\ \A i \in 1..(Len(tok) - 1) : IsLetter(tok[i])
    /\ SubSeq(tok, 1, Len(tok) - 1) \notin
           { <<"A", "N", "D">>, <<"O", "R">>, <<"N", "O", "T">> }

IsPrefixOf(p, t) == Len(p) <= Len(t) /\ SubSeq(t, 1, Len(p)) = p

\* the row has a token, in any column, that starts with the term
RowMatchesTerm(postings, tok) ==
    LET term == ToLower(SubSeq(tok, 1, Len(tok) - 1)) IN
    \E e \in postings : IsPrefixOf(term, e[2])

\* The outcomes of WHERE posts_fts MATCH ?: an error, or the matching rowids.
\* An empty expression is an FTS5 syntax error; a sequence of prefix terms is
\* their conjunction; any other expression (operators, quotes, punctuation) may
\* be rejected or match any set of indexed rows.
FtsMatch(fts, query) ==
    LET toks == Fields(query) IN
    IF toks = <<>> THEN { [err |-> TRUE, rowids |-> {}] }
    ELSE IF \A i \in DOMAIN toks : IsPrefixTerm(toks[i])
    THEN { [err |-> FALSE,
            rowids |-> { id \in DOMAIN fts :
                           \A i \in DOMAIN toks :
                               RowMatchesTerm(fts[id], toks[i]) }] }
    ELSE { [err |-> TRUE, rowids |-> {}] }
            \cup { [err |-> FALSE, rowids |-> ids] : ids \in SUBSET DOMAIN fts }

-----------------------------------------------------------------------------
(* the query of one collection and the merge, handleSearch *)

RankValues == (0 - MaxRank)..0

AnyRow(row) == TRUE

\* AND p.published = 1
PublishedFilter(row) == row.published = 1

RECURSIVE OrderByRankFrom(_, _, _)
OrderByRankFrom(ids, rankOf, r) ==
    IF r > 0 THEN <<>>
    ELSE SelectSeq(ids, LAMBDA id : rankOf[id] = r)
             \o OrderByRankFrom(ids, rankOf, r + 1)

ScanOrderOnly(ids, rankOf) == ids

\* ORDER BY fts.rank: ascending, rows of equal rank in the order of the scan
OrderByRank(ids, rankOf) == OrderByRankFrom(ids, rankOf, 0 - MaxRank)

NoLimit(rows) == rows

\* LIMIT 50
ApplyLimit(rows) ==
    IF Len(rows) > Limit THEN SubSeq(rows, 1, Limit) ELSE rows

\* SELECT ... FROM posts p JOIN posts_fts fts ON p.id = fts.rowid
\* WHERE posts_fts MATCH ? AND p.published = 1 ORDER BY fts.rank LIMIT 50,
\* and the loop that appends one SearchResult per row.  matched is the set of
\* rowids the MATCH gives, scan the order in which the index yields rowids,
\* rankOf the rank FTS5 computes for each, tagsOf the p.Tags of each post (a
\* Page has no Tags).
QueryCollection(kind, table, matched, scan, rankOf, tagsOf) ==
    LET hits == SelectSeq(scan, LAMBDA id :
                    /\ id \in matched
                    /\ id \in DOMAIN table
                    /\ PublishedFilter(table[id]))
        rows == ApplyLimit(OrderByRank(hits, rankOf))
    IN  [i \in DOMAIN rows |->
            [Type |-> kind, ID |-> rows[i], Rank |-> rankOf[rows[i]],
             Tags |-> tagsOf[rows[i]]]]

\* a Page has no Tags field
NoTags(ids) == [id \in ids |-> <<>>]

Orderings(n) ==
    { f \in [1..n -> 1..n] : \A i, j \in 1..n : f[i] = f[j] => i = j }

\* the comparison handed to sort.Slice
Less(a, b) == a.Rank < b.Rank

IsSortedByRank(rs) ==
    \A i, j \in DOMAIN rs : i < j => ~Less(rs[j], rs[i])

Unsorted(rs) == { rs }

FirstOnly(rs) == { IF rs = <<>> THEN rs ELSE <<rs[1]>> }

\* sort.Slice(results, less): the slice is permuted into an order sorted by
\* less; sort.Slice is not a stable sort, so the order among results of equal
\* rank is any order.
sortResultsByRank(rs) ==
    { out \in { [i \in DOMAIN rs |-> rs[f[i]]] : f \in Orderings(Len(rs)) } :
        IsSortedByRank(out) }

RECURSIVE SortStableFrom(_, _)
\* the results in ascending rank, those of equal rank in their order in rs
SortStableFrom(rs, r) ==
    IF r > 0 THEN <<>>
    ELSE SelectSeq(rs, LAMBDA x : x.Rank = r) \o SortStableFrom(rs, r + 1)

Reverse(rs) == [i \in DOMAIN rs |-> rs[Len(rs) + 1 - i]]

\* The orders sortResultsByRank may leave the slice in.  For a slice longer
\* than MaxSortLen the model follows two of them: equal ranks in their
\* original order, and equal ranks in the reverse of it.
SortOutcomes(rs) ==
    IF Len(rs) <= MaxSortLen THEN sortResultsByRank(rs)
    ELSE { SortStableFrom(rs, 0 - MaxRank),
           SortStableFrom(Reverse(rs), 0 - MaxRank) }

Truncated(table) == [id \in {} |-> table[id]]

\* a table or index after db.Query has run a SELECT on it: every statement of
\* handleSearch and getPostTags is a SELECT, which writes nothing
AfterSelect(table) == table

\* pc after the posts block
AbortOnPostError(err) == IF err THEN "rendered" ELSE "pages"

\* if err == nil { ... } around the posts loop: the handler goes on to the
\* pages query whether or not the posts query failed
AfterPostsQuery(err) == "pages"

\* query == "": render no results, issue no query
SearchEmptyQuery ==
    /\ pc = "idle"
    /\ pc' = "rendered"
    /\ q' = <<>>
    /\ results' = <<>>
    /\ total' = 0
    /\ status' = 200
    /\ UNCHANGED <<ftsQuery, issued, postErr, pageErr, tagErrs, postRows,
                   pageRows>>
    /\ UNCHANGED dbVars
    /\ UNCHANGED webVars
    /\ UNCHANGED adminVars
    /\ UNCHANGED migVars

\* from the start of handleSearch through the posts query and its loop.
\* fail: the database refuses the query (index unavailable); tagFail: the ids
\* for which the database refuses the query of getPostTags
SearchPostsStep(query, scan, rankOf, fail, tagFail) ==
    /\ pc = "idle"
    /\ query # <<>>
    /\ LET prepared == prepareFTSQuery(query) IN
       \E m \in FtsMatch(postsFts, prepared) :
           LET err == fail \/ m.err
               tagsOf == [id \in DOMAIN posts |->
                              getPostTags(id, tags, postTags, id \in tagFail)]
               rows == IF err THEN <<>>
                       ELSE QueryCollection("post", posts, m.rowids, scan,
                                            rankOf, tagsOf)
           IN  /\ q' = query
               /\ tagErrs' = { id \in tagFail :
                                 \E i \in DOMAIN rows : rows[i].ID = id }
               /\ ftsQuery' = prepared
               /\ issued' = issued \cup {"posts"}
               /\ postErr' = err
               /\ postRows' = rows
               /\ results' = rows
               /\ pc' = AfterPostsQuery(err)
               /\ status' = IF AfterPostsQuery(err) = "rendered" THEN 500
                            ELSE status
    /\ posts' = AfterSelect(posts)
    /\ postsFts' = AfterSelect(postsFts)
    /\ tags' = AfterSelect(tags)
    /\ UNCHANGED <<pageErr, pageRows, total>>
    /\ UNCHANGED <<nextPostId, pages, pagesFts, nextPageId, postTags>>
    /\ UNCHANGED webVars
    /\ UNCHANGED adminVars
    /\ UNCHANGED migVars

\* the pages query and its loop, sortResultsByRank and the template
SearchPagesStep(scan, rankOf, fail) ==
    /\ pc = "pages"
    /\ \E m \in FtsMatch(pagesFts, ftsQuery) :
           LET err == fail \/ m.err
               rows == IF err THEN <<>>
                       ELSE QueryCollection("page", pages, m.rowids, scan,
                                            rankOf, NoTags(DOMAIN pages))
           IN  /\ issued' = issued \cup {"pages"}
               /\ pageErr' = err
               /\ pageRows' = rows
               /\ \E out \in SortOutcomes(results \o rows) :
                      /\ results' = out
                      /\ total' = Len(out)
               /\ status' = 200
               /\ pc' = "rendered"
    /\ pages' = AfterSelect(pages)
    /\ pagesFts' = AfterSelect(pagesFts)
    /\ UNCHANGED <<q, ftsQuery, postErr, tagErrs, postRows>>
    /\ UNCHANGED <<posts, postsFts, nextPostId, nextPageId, tags, postTags>>
    /\ UNCHANGED webVars
    /\ UNCHANGED adminVars
    /\ UNCHANGED migVars

\* the response is written and the request ends
SearchDone ==
    /\ pc = "rendered"
    /\ pc' = "idle"
    /\ q' = <<>>
    /\ ftsQuery' = <<>>
    /\ issued' = {}
    /\ postErr' = FALSE
    /\ pageErr' = FALSE
    /\ tagErrs' = {}
    /\ postRows' = <<>>
    /\ pageRows' = <<>>
    /\ results' = <<>>
    /\ total' = 0
    /\ status' = 0
    /\ UNCHANGED dbVars
    /\ UNCHANGED webVars
    /\ UNCHANGED adminVars
    /\ UNCHANGED migVars

-----------------------------------------------------------------------------
(* Spec: one search request at a time, concurrent with the admin's writes *)

\* the raw queries of the search requests
Queries == { <<" ", "*">>, <<"g">>, <<"s", "q", "l">> }

PostIds == 1..MaxPostId
PageIds == 1..MaxPageId

ScanOrders(n) == Orderings(n)

\* a table as the search migration finds it: empty, or holding a first row
InitialTables == { EmptyTable } \cup { SetEntry(EmptyTable, 1, r) : r \in Rows }

\* the form of a request that posts nothing
NoForm == [csrf_token |-> "", id |-> 0, tags |-> <<>>]

\* no handleEditPost request is being served
NoEdit ==
    [pc |-> "idle", names |-> <<>>, err |-> FALSE,
     before |-> [posts |-> <<>>, tags |-> <<>>, postTags |-> {}]]

\* runMigrations has not been called
NoMigration ==
    [pc |-> "idle", files |-> <<>>, latestVersion |-> 0, next |-> 1,
     applied |-> <<>>, failedAt |-> 0, rerun |-> FALSE]

\* no login, no admin or public request yet
InitWeb ==
    /\ authTokens = {}
    /\ cookie = <<>>
    /\ route = ""
    /\ shown = {}
    /\ form = NoForm
    /\ uploads = {}
    /\ edit = NoEdit
    /\ loggedOut = {}
    /\ schema_migrations = {}
    /\ migration = NoMigration

InitRequest ==
    /\ InitWeb
    /\ pc = "idle"
    /\ q = <<>>
    /\ ftsQuery = <<>>
    /\ issued = {}
    /\ postErr = FALSE
    /\ pageErr = FALSE
    /\ tagErrs = {}
    /\ postRows = <<>>
    /\ pageRows = <<>>
    /\ results = <<>>
    /\ total = 0
    /\ status = 0

Init ==
    /\ posts \in InitialTables
    /\ postsFts = FtsPopulate(posts)
    /\ nextPostId = Cardinality(DOMAIN posts) + 1
    /\ pages \in InitialTables
    /\ pagesFts = FtsPopulate(pages)
    /\ nextPageId = Cardinality(DOMAIN pages) + 1
    /\ tags = [n \in {} |-> 0]
    /\ postTags = {}
    /\ InitRequest

SearchPosts ==
    \E query \in Queries, scan \in ScanOrders(MaxPostId),
       rankOf \in [PostIds -> RankValues], fail \in BOOLEAN,
       tagFail \in SUBSET PostIds :
        SearchPostsStep(query, scan, rankOf, fail, tagFail)

SearchPages ==
    \E scan \in ScanOrders(MaxPageId), rankOf \in [PageIds -> RankValues],
       fail \in BOOLEAN :
        SearchPagesStep(scan, rankOf, fail)

AdminNewPost ==
    \E t \in Titles, c \in Contents, p \in BOOLEAN, ts \in TagInputs :
        NewPost(t, c, p, ts)

AdminEditPost ==
    \E id \in 0..MaxPostId, t \in Titles, c \in Contents, p \in BOOLEAN,
       ts \in TagInputs :
        EditPost(id, t, c, p, ts)

AdminDeletePost == \E id \in PostIds : DeletePost(id)

AdminNewPage ==
    \E t \in Titles, c \in Contents, p \in BOOLEAN : NewPage(t, c, p)

AdminEditPage ==
    \E id \in PageIds, t \in Titles, c \in Contents, p \in BOOLEAN :
        EditPage(id, t, c, p)

AdminDeletePage == \E id \in PageIds : DeletePage(id)

Next ==
    \/ SearchEmptyQuery
    \/ SearchPosts
    \/ SearchPages
    \/ SearchDone
    \/ AdminNewPost
    \/ AdminEditPost
    \/ AdminDeletePost
    \/ AdminNewPage
    \/ AdminEditPage
    \/ AdminDeletePage

Spec == Init /\ [][Next]_vars

-----------------------------------------------------------------------------
(* PrepSpec: prepareFTSQuery on its own, over every short raw query *)

PrepAlphabet == { "a", "o", "R", "*", " ", "\"" }

StringsUpTo(n) == UNION { [1..k -> PrepAlphabet] : k \in 0..n }

\* "exact phrase", with its quotes
ExactPhrase ==
    <<"\"", "e", "x", "a", "c", "t", " ", "p", "h", "r", "a", "s", "e", "\"">>

HelloWorld == <<"h", "e", "l", "l", "o", " ", "w", "o", "r", "l", "d">>

HelloAndWorld ==
    <<"h", "e", "l", "l", "o", " ", "A", "N", "D", " ", "w", "o", "r", "l", "d">>

PrepExamples ==
    { ExactPhrase, HelloWorld, HelloAndWorld, <<"a", "*", "b">>,
      <<"\t", " ", "\n">>, <<"n", "*", "o", "T">> }

PrepInputs == StringsUpTo(MaxQueryLen) \cup PrepExamples

PrepInit ==
    /\ posts = EmptyTable
    /\ postsFts = EmptyIndex
    /\ nextPostId = 1
    /\ pages = EmptyTable
    /\ pagesFts = EmptyIndex
    /\ nextPageId = 1
    /\ tags = [n \in {} |-> 0]
    /\ postTags = {}
    /\ InitWeb
    /\ pc = "idle"
    /\ q \in PrepInputs
    /\ ftsQuery = <<>>
    /\ issued = {}
    /\ postErr = FALSE
    /\ pageErr = FALSE
    /\ tagErrs = {}
    /\ postRows = <<>>
    /\ pageRows = <<>>
    /\ results = <<>>
    /\ total = 0
    /\ status = 0

\* ftsQuery := prepareFTSQuery(query)
PrepareQuery ==
    /\ pc = "idle"
    /\ ftsQuery' = prepareFTSQuery(q)
    /\ pc' = "prepared"
    /\ UNCHANGED <<q, issued, postErr, pageErr, tagErrs, postRows, pageRows,
                   results, total, status>>
    /\ UNCHANGED dbVars
    /\ UNCHANGED webVars
    /\ UNCHANGED adminVars
    /\ UNCHANGED migVars

\* prepareFTSQuery applied to a query it has prepared
PrepareAgain ==
    /\ pc = "prepared"
    /\ q' = ftsQuery
    /\ ftsQuery' = prepareFTSQuery(ftsQuery)
    /\ pc' = "reprepared"
    /\ UNCHANGED <<issued, postErr, pageErr, tagErrs, postRows, pageRows,
                   results, total, status>>
    /\ UNCHANGED dbVars
    /\ UNCHANGED webVars
    /\ UNCHANGED adminVars
    /\ UNCHANGED migVars

PrepNext ==
    \/ PrepareQuery
    \/ PrepareAgain

PrepSpec == PrepInit /\ [][PrepNext]_vars

-----------------------------------------------------------------------------
(* SortSpec: sortResultsByRank on its own, over every short result list *)

\* n results of one collection, in retrieval order, with the given ranks
ResultList(kind, ranks) ==
    [i \in DOMAIN ranks |->
        [Type |-> kind, ID |-> i, Rank |-> ranks[i], Tags |-> <<>>]]

RankLists(n) == UNION { [1..k -> RankValues] : k \in 0..n }

SortInit ==
    /\ posts = EmptyTable
    /\ postsFts = EmptyIndex
    /\ nextPostId = 1
    /\ pages = EmptyTable
    /\ pagesFts = EmptyIndex
    /\ nextPageId = 1
    /\ tags = [n \in {} |-> 0]
    /\ postTags = {}
    /\ InitWeb
    /\ pc = "merge"
    /\ q = <<"g">>
    /\ ftsQuery = <<"g", "*">>
    /\ issued = {"posts", "pages"}
    /\ postErr = FALSE
    /\ pageErr = FALSE
    /\ tagErrs = {}
    /\ \E pr \in RankLists(MaxSortLen), gr \in RankLists(MaxSortLen) :
           /\ Len(pr) + Len(gr) <= MaxSortLen
           /\ postRows = ResultList("post", pr)
           /\ pageRows = ResultList("page", gr)
    /\ results = postRows \o pageRows
    /\ total = 0
    /\ status = 0

\* sortResultsByRank(results) and the data handed to the template
SortResults ==
    /\ pc = "merge"
    /\ \E out \in SortOutcomes(results) :
           /\ results' = out
           /\ total' = Len(out)
    /\ status' = 200
    /\ pc' = "rendered"
    /\ UNCHANGED <<q, ftsQuery, issued, postErr, pageErr, tagErrs, postRows,
                   pageRows>>
    /\ UNCHANGED dbVars
    /\ UNCHANGED webVars
    /\ UNCHANGED adminVars
    /\ UNCHANGED migVars

SortNext == SortResults

SortSpec == SortInit /\ [][SortNext]_vars

-----------------------------------------------------------------------------
(* LoadSpec: handleSearch against tables with more matching rows than the  *)
(* limit of a query                                                        *)

GoText == <<"g", "o">>

\* the row counts tried: none, and those around the limit
LoadSizes == { 0 } \cup { n \in 1..MaxRows : n >= MaxRows - 3 }

\* n rows that all hold the word go; every row published, or every second one
LoadTable(n, allPublished) ==
    [id \in 1..n |-> Row(GoText, GoText, allPublished \/ id % 2 = 1)]

\* the ranks tried: all equal, or cycling through the rank values
LoadRanks ==
    { [id \in 1..MaxRows |-> 0],
      [id \in 1..MaxRows |-> 0 - (id % (MaxRank + 1))] }

LoadScan == [i \in 1..MaxRows |-> i]

LoadInit ==
    /\ \E n \in LoadSizes, allPublished \in BOOLEAN :
           posts = LoadTable(n, allPublished)
    /\ postsFts = FtsPopulate(posts)
    /\ nextPostId = Cardinality(DOMAIN posts) + 1
    /\ \E n \in LoadSizes : pages = LoadTable(n, TRUE)
    /\ pagesFts = FtsPopulate(pages)
    /\ nextPageId = Cardinality(DOMAIN pages) + 1
    /\ tags = [n \in {} |-> 0]
    /\ postTags = {}
    /\ InitRequest

LoadSearchPosts ==
    \E query \in Queries, rankOf \in LoadRanks, fail \in BOOLEAN :
        SearchPostsStep(query, LoadScan, rankOf, fail, {})

LoadSearchPages ==
    \E rankOf \in LoadRanks, fail \in BOOLEAN :
        SearchPagesStep(LoadScan, rankOf, fail)

LoadNext ==
    \/ SearchEmptyQuery
    \/ LoadSearchPosts
    \/ LoadSearchPages
    \/ SearchDone

LoadSpec == LoadInit /\ [][LoadNext]_vars

-----------------------------------------------------------------------------
(* TagSpec: handleSearch against posts that are linked to tags *)

\* tag names, in the order in which the tags table got them
TagNames == << <<"t">>, <<"s">>, <<"s", "a">>, <<"T">> >>

TagTable == [n \in { TagNames[i] : i \in 1..MaxTags } |->
                CHOOSE i \in 1..MaxTags : TagNames[i] = n]

TagInit ==
    /\ posts = LoadTable(MaxTaggedPosts, TRUE)
    /\ postsFts = FtsPopulate(posts)
    /\ nextPostId = MaxTaggedPosts + 1
    /\ pages = LoadTable(1, TRUE)
    /\ pagesFts = FtsPopulate(pages)
    /\ nextPageId = 2
    /\ tags = TagTable
    /\ postTags \in SUBSET ((1..MaxTaggedPosts) \X (1..MaxTags))
    /\ InitRequest

TagSearchPosts ==
    \E query \in Queries, rankOf \in LoadRanks, fail \in BOOLEAN,
       tagFail \in SUBSET (1..MaxTaggedPosts) :
        SearchPostsStep(query, LoadScan, rankOf, fail, tagFail)

TagSearchPages ==
    \E rankOf \in LoadRanks, fail \in BOOLEAN :
        SearchPagesStep(LoadScan, rankOf, fail)

TagNext ==
    \/ SearchEmptyQuery
    \/ TagSearchPosts
    \/ TagSearchPages
    \/ SearchDone

TagSpec == TagInit /\ [][TagNext]_vars

-----------------------------------------------------------------------------
(* AuthSpec: handleLogin, handleLogout and the handlers behind requireAuth *)

\* app.csrfToken, generated once in main and put into every form
CsrfToken == "csrf"

\* the csrf_token values a form posts
CsrfInputs == { CsrfToken, "" }

\* the users table: username -> the password its bcrypt hash verifies
Users == [u \in {"admin"} |-> "secret"]

Usernames == { "admin", "eve" }
Passwords == { "secret", "guess" }

\* generateToken: 32 random bytes, base64
TokenNames == <<"tokenA", "tokenB", "tokenC">>
TokenValues == { TokenNames[i] : i \in 1..MaxTokens }

\* the auth_token cookies a client may send: none, an empty one, a value
\* generateToken can give, or any other text
CookieInputs ==
    { <<>>, <<"">>, <<"forged">> } \cup { <<t>> : t \in TokenValues }

\* token == app.csrfToken
validateCSRF(token) == token = CsrfToken

\* err == nil of the SELECT by username, and the bcrypt comparison
PasswordMatches(username, password) ==
    username \in DOMAIN Users /\ Users[username] = password

\* requireAuth lets the request through to next:
\* not (err != nil || cookie.Value == "")
requireAuth(c) == c # <<>> /\ c[1] # ""

\* handleLogin
Login(method, username, password, csrf) ==
    /\ route' = method \o " /login"
    /\ form' = IF method = "GET" THEN NoForm
               ELSE [NoForm EXCEPT !.csrf_token = csrf]
    /\ IF method = "GET"
       THEN /\ pc' = "loginForm"
            /\ status' = 200
            /\ UNCHANGED <<authTokens, cookie, loggedOut>>
       ELSE IF ~validateCSRF(csrf)
       THEN /\ pc' = "forbidden"
            /\ status' = 403
            /\ UNCHANGED <<authTokens, cookie, loggedOut>>
       ELSE IF ~PasswordMatches(username, password)
       THEN /\ pc' = "loginFailed"
            /\ status' = 200
            /\ UNCHANGED <<authTokens, cookie, loggedOut>>
       ELSE \E token \in TokenValues :
                /\ authTokens' = authTokens \cup {token}
                /\ loggedOut' = loggedOut \ {token}
                /\ cookie' = <<token>>
                /\ pc' = "loggedIn"
                /\ status' = 303
    /\ UNCHANGED <<q, ftsQuery, issued, postErr, pageErr, tagErrs, postRows,
                   pageRows, results, total, shown, uploads, edit>>
    /\ UNCHANGED dbVars
    /\ UNCHANGED migVars

\* handleLogout, for a request with cookie c: the cookie is deleted at the
\* client, and the server keeps nothing about the token
Logout(c) ==
    /\ route' = "GET /logout"
    /\ cookie' = <<>>
    /\ loggedOut' = loggedOut \cup { t \in authTokens : c = <<t>> }
    /\ pc' = "loggedOut"
    /\ status' = 303
    /\ UNCHANGED <<q, ftsQuery, issued, postErr, pageErr, tagErrs, postRows,
                   pageRows, results, total, shown, authTokens, form, uploads,
                   edit>>
    /\ UNCHANGED dbVars
    /\ UNCHANGED migVars

\* GET /admin: requireAuth(handleAdmin), for a request with cookie c
AdminHome(c) ==
    /\ route' = "GET /admin"
    /\ cookie' = c
    /\ IF ~requireAuth(c)
       THEN pc' = "redirected" /\ status' = 303
       ELSE pc' = "handler" /\ status' = 200
    /\ UNCHANGED <<q, ftsQuery, issued, postErr, pageErr, tagErrs, postRows,
                   pageRows, results, total, shown, authTokens>>
    /\ UNCHANGED dbVars
    /\ UNCHANGED adminVars
    /\ UNCHANGED migVars

\* POST /admin/posts/delete: requireAuth(handleDeletePost), for a request with
\* cookie c and the form values csrf_token and id
AdminDelete(c, csrf, id) ==
    /\ route' = "POST /admin/posts/delete"
    /\ cookie' = c
    /\ form' = [NoForm EXCEPT !.csrf_token = csrf, !.id = id]
    /\ IF ~requireAuth(c)
       THEN /\ pc' = "redirected"
            /\ status' = 303
            /\ UNCHANGED <<posts, postsFts>>
       ELSE IF ~validateCSRF(csrf)
       THEN /\ pc' = "handler"
            /\ status' = 403
            /\ UNCHANGED <<posts, postsFts>>
       ELSE LET remaining == IF id \in DOMAIN posts THEN DropEntry(posts, id)
                             ELSE posts
            IN  /\ pc' = "handler"
                /\ status' = 303
                /\ posts' = remaining
                /\ postsFts' = IF id \in DOMAIN posts
                               THEN FtsDelete(postsFts, remaining, id)
                               ELSE postsFts
    /\ UNCHANGED <<q, ftsQuery, issued, postErr, pageErr, tagErrs, postRows,
                   pageRows, results, total, shown, authTokens, uploads, edit,
                   loggedOut>>
    /\ UNCHANGED <<nextPostId, pages, pagesFts, nextPageId, tags, postTags>>
    /\ UNCHANGED migVars

AuthInit ==
    /\ posts \in InitialTables
    /\ postsFts = FtsPopulate(posts)
    /\ nextPostId = Cardinality(DOMAIN posts) + 1
    /\ pages = EmptyTable
    /\ pagesFts = EmptyIndex
    /\ nextPageId = 1
    /\ tags = [n \in {} |-> 0]
    /\ postTags = {}
    /\ InitRequest

AuthLogin ==
    \E method \in {"GET", "POST"}, username \in Usernames,
       password \in Passwords, csrf \in CsrfInputs :
        Login(method, username, password, csrf)

AuthLogout == \E c \in CookieInputs : Logout(c)

AuthAdminHome == \E c \in CookieInputs : AdminHome(c)

AuthAdminDelete ==
    \E c \in CookieInputs, csrf \in CsrfInputs, id \in 0..MaxPostId :
        AdminDelete(c, csrf, id)

AuthNext ==
    \/ AuthLogin
    \/ AuthLogout
    \/ AuthAdminHome
    \/ AuthAdminDelete

AuthSpec == AuthInit /\ [][AuthNext]_vars

-----------------------------------------------------------------------------
(* SiteSpec: the public handlers of site.go, rss.go and the sitemap *)

PostTypes == { "article", "note", "essay" }

NowTag == <<"n", "o", "w">>

\* the slug of the row with the given id
SlugOf(id) == <<"s", id>>

SitePost(id, postType, published, createdAt) ==
    [title |-> GoText, content |-> GoText, published |-> BoolToInt(published),
     post_type |-> postType, slug |-> SlugOf(id), created_at |-> createdAt]

SitePage(id, published) ==
    [title |-> GoText, content |-> GoText, published |-> BoolToInt(published),
     slug |-> SlugOf(id), created_at |-> id]

PostRef(id) == [Type |-> "post", ID |-> id]
PageRef(id) == [Type |-> "page", ID |-> id]

\* ORDER BY created_at DESC with a limit of n rows: the n latest rows, any of
\* those created at the same time
Latest(ids, table, n) ==
    IF Cardinality(ids) <= n THEN { ids }
    ELSE { S \in SUBSET ids :
             /\ Cardinality(S) = n
             /\ \A a \in S, b \in ids \ S :
                    table[a].created_at >= table[b].created_at }

\* FROM posts p JOIN post_tags pt ON p.id = pt.post_id
\* JOIN tags t ON pt.tag_id = t.id WHERE t.name = ?
TaggedWith(tagName) ==
    { id \in DOMAIN posts :
        tagName \in DOMAIN tags /\ <<id, tags[tagName]>> \in postTags }

\* the response of a public handler: the rows it shows and its status
Serve(r, rows, code) ==
    /\ route' = r
    /\ shown' = rows
    /\ status' = code
    /\ pc' = "served"
    /\ UNCHANGED <<q, ftsQuery, issued, postErr, pageErr, tagErrs, postRows,
                   pageRows, results, total, authTokens, cookie>>
    /\ UNCHANGED dbVars
    /\ UNCHANGED adminVars
    /\ UNCHANGED migVars

\* handlePage: WHERE slug = ? AND published = 1
handlePage(slug, fail) ==
    LET found == { id \in DOMAIN pages :
                     pages[id].slug = slug /\ pages[id].published = 1 }
    IN  IF fail THEN Serve("GET /{slug}", {}, 500)
        ELSE IF found = {} THEN Serve("GET /{slug}", {}, 404)
        ELSE \E id \in found : Serve("GET /{slug}", {PageRef(id)}, 200)

\* handleHome: the five latest posts of each of the types essay and note
handleHome(path, fail) ==
    IF path # <<"/">> THEN handlePage(Tail(path), fail)
    ELSE IF fail THEN Serve("GET /", {}, 500)
    ELSE LET essays == { id \in DOMAIN posts : posts[id].post_type = "essay" }
             notes == { id \in DOMAIN posts : posts[id].post_type = "note" }
         IN  \E E \in Latest(essays, posts, HomeLimit),
                N \in Latest(notes, posts, HomeLimit) :
                 Serve("GET /", { PostRef(id) : id \in E \cup N }, 200)

\* handlePosts(postType): WHERE slug = ? AND post_type = ? AND published = 1
handlePosts(postType, slug, fail) ==
    LET found == { id \in DOMAIN posts :
                     /\ posts[id].slug = slug
                     /\ posts[id].post_type = postType
                     /\ posts[id].published = 1 }
    IN  IF fail THEN Serve("GET /{type}s/{slug}", {}, 500)
        ELSE IF found = {} THEN Serve("GET /{type}s/{slug}", {}, 404)
        ELSE \E id \in found :
                 Serve("GET /{type}s/{slug}", {PostRef(id)}, 200)

\* handlePostsList(postType): WHERE post_type = ? AND published = 1
handlePostsList(postType, fail) ==
    IF fail THEN Serve("GET /{type}s", {}, 500)
    ELSE Serve("GET /{type}s",
               { PostRef(id) : id \in { i \in DOMAIN posts :
                     /\ posts[i].post_type = postType
                     /\ posts[i].published = 1 } }, 200)

\* handleTagPosts: WHERE t.name = ? AND p.published = 1
handleTagPosts(tagName, fail) ==
    IF fail THEN Serve("GET /tags/{slug}", {}, 500)
    ELSE Serve("GET /tags/{slug}",
               { PostRef(id) : id \in { i \in TaggedWith(tagName) :
                     posts[i].published = 1 } }, 200)

\* handleNow: WHERE t.name = 'now' AND p.published = 1
\* ORDER BY p.created_at DESC LIMIT 1
handleNow(fail) ==
    LET found == { i \in TaggedWith(NowTag) : posts[i].published = 1 }
    IN  IF fail THEN Serve("GET /now", {}, 500)
        ELSE IF found = {} THEN Serve("GET /now", {}, 404)
        ELSE \E S \in Latest(found, posts, 1) :
                 Serve("GET /now", { PostRef(id) : id \in S }, 200)

\* generateRSSFeed: every published post, or those of one type
generateRSSFeed(postType) ==
    { PostRef(id) : id \in { i \in DOMAIN posts :
          /\ posts[i].published = 1
          /\ postType = "" \/ posts[i].post_type = postType } }

\* handleRSSFeed (postType "") and handlePostTypeRSS(postType)
handleRSSFeed(postType, fail) ==
    IF fail THEN Serve("GET /feed.xml", {}, 500)
    ELSE Serve("GET /feed.xml", generateRSSFeed(postType), 200)

\* generateSitemap: the published posts and the published pages
generateSitemap ==
    { PostRef(id) : id \in { i \in DOMAIN posts : posts[i].published = 1 } }
        \cup
    { PageRef(id) : id \in { i \in DOMAIN pages : pages[i].published = 1 } }

\* handleSitemap
handleSitemap(fail) ==
    IF fail THEN Serve("GET /sitemap.xml", {}, 500)
    ELSE Serve("GET /sitemap.xml", generateSitemap, 200)

\* posts created one after the other, so with created_at that never decreases
SitePostTables ==
    { t \in [1..MaxSitePosts ->
                { SitePost(id, pt, p, c) : id \in 1..MaxSitePosts,
                      pt \in PostTypes, p \in BOOLEAN, c \in 1..2 }] :
        /\ \A id \in 1..MaxSitePosts : t[id].slug = SlugOf(id)
        /\ t[1].created_at = 1
        /\ \A id \in 2..MaxSitePosts :
               t[id].created_at >= t[id - 1].created_at }

SitePageTables ==
    { [id \in {} |-> SitePage(id, TRUE)] }
        \cup { [id \in {1} |-> SitePage(id, p)] : p \in BOOLEAN }

SiteInit ==
    /\ posts \in SitePostTables
    /\ postsFts = FtsPopulate(posts)
    /\ nextPostId = MaxSitePosts + 1
    /\ pages \in SitePageTables
    /\ pagesFts = FtsPopulate(pages)
    /\ nextPageId = Cardinality(DOMAIN pages) + 1
    /\ tags = [n \in {NowTag} |-> 1]
    /\ postTags \in SUBSET ((1..MaxSitePosts) \X {1})
    /\ InitRequest

SitePaths == { <<"/">> } \cup { <<"/">> \o SlugOf(id) : id \in 1..MaxSitePosts }

SiteHome == \E path \in SitePaths, fail \in BOOLEAN : handleHome(path, fail)

SitePosts ==
    \E postType \in PostTypes, id \in 1..MaxSitePosts, fail \in BOOLEAN :
        handlePosts(postType, SlugOf(id), fail)

SitePostsList ==
    \E postType \in PostTypes, fail \in BOOLEAN :
        handlePostsList(postType, fail)

SiteTagPosts ==
    \E tagName \in { NowTag, <<"x">> }, fail \in BOOLEAN :
        handleTagPosts(tagName, fail)

SiteNow == \E fail \in BOOLEAN : handleNow(fail)

SiteRSSFeed ==
    \E postType \in PostTypes \cup {""}, fail \in BOOLEAN :
        handleRSSFeed(postType, fail)

SiteSitemap == \E fail \in BOOLEAN : handleSitemap(fail)

SiteNext ==
    \/ SiteHome
    \/ SitePosts
    \/ SitePostsList
    \/ SiteTagPosts
    \/ SiteNow
    \/ SiteRSSFeed
    \/ SiteSitemap

SiteSpec == SiteInit /\ [][SiteNext]_vars

-----------------------------------------------------------------------------
(* CsrfSpec: the admin handlers that take a POST, each with the csrf_token *)
(* its form carries                                                        *)

\* the unique file name generateUniqueFilename gives an upload
UploadNames == { "image_1.png" }

\* a POST handler of part_001: validateCSRF before the form is read, then
\* the statements of the handler and the redirect
CsrfChecked(r, csrf, id, tagsStr, writes) ==
    /\ route' = r
    /\ form' = [csrf_token |-> csrf, id |-> id, tags |-> tagsStr]
    /\ IF ~validateCSRF(csrf)
       THEN /\ pc' = "forbidden"
            /\ status' = 403
            /\ UNCHANGED dbVars
       ELSE /\ pc' = "handler"
            /\ status' = 303
            /\ writes
    /\ UNCHANGED <<q, ftsQuery, issued, postErr, pageErr, tagErrs, postRows,
                   pageRows, results, total, shown, authTokens, cookie,
                   uploads, edit, loggedOut>>
    /\ UNCHANGED migVars

\* handleNewMedia, POST: the form is parsed and the file uploaded; fail is an
\* error of the parse, of FormFile or of uploadToBunny
handleNewMedia(csrf, name, fail) ==
    /\ route' = "POST /admin/media/new"
    /\ form' = [NoForm EXCEPT !.csrf_token = csrf]
    /\ pc' = "handler"
    /\ IF fail
       THEN status' = 500 /\ UNCHANGED uploads
       ELSE status' = 303 /\ uploads' = uploads \cup {name}
    /\ UNCHANGED <<q, ftsQuery, issued, postErr, pageErr, tagErrs, postRows,
                   pageRows, results, total, shown, authTokens, cookie, edit,
                   loggedOut>>
    /\ UNCHANGED dbVars
    /\ UNCHANGED migVars

\* the contents and tag lists the forms of this specification post
CsrfContents == { <<"g", "o">> }
CsrfTagInputs == { <<>>, <<"t">> }

CsrfInit ==
    /\ posts \in InitialTables
    /\ postsFts = FtsPopulate(posts)
    /\ nextPostId = Cardinality(DOMAIN posts) + 1
    /\ pages \in InitialTables
    /\ pagesFts = FtsPopulate(pages)
    /\ nextPageId = Cardinality(DOMAIN pages) + 1
    /\ tags = [n \in {} |-> 0]
    /\ postTags = {}
    /\ InitRequest

CsrfLogin ==
    \E username \in {"admin"}, password \in Passwords, csrf \in CsrfInputs :
        Login("POST", username, password, csrf)

CsrfNewPost ==
    \E csrf \in CsrfInputs, t \in Titles, c \in CsrfContents, p \in BOOLEAN, tagsStr \in CsrfTagInputs :
        CsrfChecked("POST /admin/posts/new", csrf, 0, tagsStr,
                    writeNewPost(t, c, p, tagsStr))

CsrfEditPost ==
    \E csrf \in CsrfInputs, id \in 0..MaxPostId, t \in Titles, c \in CsrfContents,
       p \in BOOLEAN, tagsStr \in CsrfTagInputs :
        CsrfChecked("POST /admin/posts/edit/{id}", csrf, id, tagsStr,
                    writeEditPost(id, t, c, p, tagsStr))

CsrfDeletePost ==
    \E csrf \in CsrfInputs, id \in 1..MaxPostId :
        CsrfChecked("POST /admin/posts/delete", csrf, id, <<>>,
                    writeDeletePost(id))

CsrfNewPage ==
    \E csrf \in CsrfInputs, t \in Titles, c \in CsrfContents, p \in BOOLEAN :
        CsrfChecked("POST /admin/pages/new", csrf, 0, <<>>,
                    writeNewPage(t, c, p))

CsrfEditPage ==
    \E csrf \in CsrfInputs, id \in 1..MaxPageId, t \in Titles, c \in CsrfContents, p \in BOOLEAN :
        CsrfChecked("POST /admin/pages/edit/{id}", csrf, id, <<>>,
                    writeEditPage(id, t, c, p))

CsrfDeletePage ==
    \E csrf \in CsrfInputs, id \in 1..MaxPageId :
        CsrfChecked("POST /admin/pages/delete", csrf, id, <<>>,
                    writeDeletePage(id))

CsrfNewMedia ==
    \E csrf \in CsrfInputs, name \in UploadNames, fail \in BOOLEAN :
        handleNewMedia(csrf, name, fail)

CsrfNext ==
    \/ CsrfLogin
    \/ CsrfNewPost
    \/ CsrfEditPost
    \/ CsrfDeletePost
    \/ CsrfNewPage
    \/ CsrfEditPage
    \/ CsrfDeletePage
    \/ CsrfNewMedia

CsrfSpec == CsrfInit /\ [][CsrfNext]_vars

-----------------------------------------------------------------------------
(* EditSpec: handleEditPost statement by statement, next to handleSearch   *)
(* requests that read the tags of the post                                 *)

\* the id of the path: strconv.Atoi gives 0 for a missing or non-numeric
\* one, and no posts row has the id 0
EditIds == 0..MaxPostId

\* the tags form values tried
EditTagInputs ==
    { <<>>, <<" ", "t", " ", ",", ",", "s">>, <<"t", ",", "t">>, <<"n">> }

\* handleEditPost, POST, up to the call of updatePostTags: the CSRF check and
\* the UPDATE of the posts row; fail is an error of the UPDATE
EditBegin(csrf, id, title, content, published, tagsStr, fail) ==
    /\ edit.pc \in {"idle", "done", "forbidden", "failed"}
    /\ route' = "POST /admin/posts/edit/{id}"
    /\ form' = [csrf_token |-> csrf, id |-> id, tags |-> tagsStr]
    /\ LET arrived == [NoEdit EXCEPT !.before = [posts |-> posts,
                                                  tags |-> tags,
                                                  postTags |-> postTags]]
       IN
       IF ~validateCSRF(csrf)
       THEN /\ edit' = [arrived EXCEPT !.pc = "forbidden"]
            /\ UNCHANGED <<posts, postsFts>>
       ELSE IF fail
       THEN /\ edit' = [arrived EXCEPT !.pc = "failed", !.err = TRUE]
            /\ UNCHANGED <<posts, postsFts>>
       ELSE LET updated == IF id \in DOMAIN posts
                           THEN SetEntry(posts, id,
                                         Row(title, content, published))
                           ELSE posts
            IN  /\ edit' = [arrived EXCEPT !.pc = "unlink"]
                /\ posts' = updated
                /\ postsFts' = FtsUpdate(postsFts, updated, id, title, content)
    /\ UNCHANGED <<nextPostId, pages, pagesFts, nextPageId, tags, postTags>>
    /\ UNCHANGED reqVars
    /\ UNCHANGED <<authTokens, cookie, shown, uploads, loggedOut>>
    /\ UNCHANGED migVars

\* updatePostTags, first statement: the DELETE, and the return when the tags
\* value is empty
EditUnlink ==
    /\ edit.pc = "unlink"
    /\ postTags' = unlinkPost(form.id, postTags)
    /\ edit' = IF form.tags = <<>>
               THEN [edit EXCEPT !.pc = "done"]
               ELSE [edit EXCEPT !.pc = "link",
                                 !.names = Split(form.tags, ",")]
    /\ UNCHANGED <<posts, postsFts, nextPostId, pages, pagesFts, nextPageId,
                   tags>>
    /\ UNCHANGED reqVars
    /\ UNCHANGED webVars
    /\ UNCHANGED <<form, uploads, loggedOut>>
    /\ UNCHANGED migVars

\* updatePostTags, one turn of the loop over the names, and the redirect of
\* handleEditPost after the last one. rejected: the database refuses the
\* INSERT INTO post_tags for a post_id that no posts row has. The INSERT of
\* a link the table already holds is refused as well: post_tags holds a
\* link once. The error of a refused INSERT is dropped by the code.
EditLink(rejected) ==
    /\ edit.pc = "link"
    /\ edit.names # <<>>
    /\ rejected => form.id \notin DOMAIN posts
    /\ LET linked == LinkTags(<<Head(edit.names)>>, form.id, tags, postTags)
           repeated == /\ TrimSpace(Head(edit.names)) # <<>>
                       /\ linked.postTags = postTags
           refused == repeated \/ (rejected /\ linked.postTags # postTags)
       IN  /\ tags' = linked.tags
           /\ postTags' = IF refused THEN postTags ELSE linked.postTags
           /\ edit' = [edit EXCEPT
                          !.names = Tail(edit.names),
                          !.err = edit.err \/ refused,
                          !.pc = IF Tail(edit.names) = <<>> THEN "done"
                                 ELSE "link"]
    /\ UNCHANGED <<posts, postsFts, nextPostId, pages, pagesFts, nextPageId>>
    /\ UNCHANGED reqVars
    /\ UNCHANGED webVars
    /\ UNCHANGED <<form, uploads, loggedOut>>
    /\ UNCHANGED migVars

EditInit ==
    /\ posts = LoadTable(MaxPostId, TRUE)
    /\ postsFts = FtsPopulate(posts)
    /\ nextPostId = MaxPostId + 1
    /\ pages = EmptyTable
    /\ pagesFts = EmptyIndex
    /\ nextPageId = 1
    /\ tags = TagTable
    /\ postTags \in SUBSET ((1..MaxPostId) \X (1..MaxTags))
    /\ InitRequest

EditPostBegin ==
    \E csrf \in CsrfInputs, id \in EditIds, tagsStr \in EditTagInputs,
       fail \in BOOLEAN :
        EditBegin(csrf, id, GoText, GoText, TRUE, tagsStr, fail)

EditPostUnlink == EditUnlink

EditPostLink == \E rejected \in BOOLEAN : EditLink(rejected)

\* the searches of this specification meet no database error
EditSearchPosts ==
    SearchPostsStep(GoText, LoadScan, [id \in 1..MaxRows |-> 0], FALSE, {})

EditSearchPages ==
    SearchPagesStep(LoadScan, [id \in 1..MaxRows |-> 0], FALSE)

EditNext ==
    \/ EditPostBegin
    \/ EditPostUnlink
    \/ EditPostLink
    \/ EditSearchPosts
    \/ EditSearchPages
    \/ SearchDone

EditSpec == EditInit /\ [][EditNext]_vars

-----------------------------------------------------------------------------
(* MigrationSpec: runMigrations over the embedded migration files *)

\* the versions of the migration files a build may embed
MigrationVersions == { 1, 2, 10 }

Digits == <<"0", "1", "2", "3", "4", "5", "6", "7", "8", "9">>

\* the decimal text of a version below 100
VersionText(v) ==
    IF v < 10 THEN <<Digits[v + 1]>>
    ELSE <<Digits[(v \div 10) + 1], Digits[(v % 10) + 1]>>

\* the name of the file of a version: the number, '_' and a description
FileName(v) == VersionText(v) \o <<"_", "m">>

IsDigit(c) == \E i \in DOMAIN Digits : Digits[i] = c

DigitValue(c) == (CHOOSE i \in DOMAIN Digits : Digits[i] = c) - 1

\* the byte of a character of a file name
FileCharCode(c) ==
    IF IsDigit(c) THEN 48 + DigitValue(c)
    ELSE IF c = "_" THEN 95
    ELSE CharCode(c)

RECURSIVE FileNameLess(_, _)
\* a sorts before b by file name, byte by byte
FileNameLess(a, b) ==
    IF b = <<>> THEN FALSE
    ELSE IF a = <<>> THEN TRUE
    ELSE IF FileCharCode(Head(a)) # FileCharCode(Head(b))
         THEN FileCharCode(Head(a)) < FileCharCode(Head(b))
         ELSE FileNameLess(Tail(a), Tail(b))

RECURSIVE ReadDir(_)
\* fs.ReadDir: the entries of the directory, sorted by file name
ReadDir(names) ==
    IF names = {} THEN <<>>
    ELSE LET first == CHOOSE n \in names :
                          \A other \in names \ {n} : FileNameLess(n, other)
         IN  <<first>> \o ReadDir(names \ {first})

RECURSIVE ScanNumber(_, _)
ScanNumber(name, acc) ==
    IF name # <<>> /\ IsDigit(Head(name))
    THEN ScanNumber(Tail(name), 10 * acc + DigitValue(Head(name)))
    ELSE acc

\* fmt.Sscanf(f.Name(), "%d_", &version)
ParseVersion(name) == ScanNumber(name, 0)

AnyVersion(version, latestVersion) == TRUE

\* version > latestVersion
IsPending(version, latestVersion) == version > latestVersion

\* SELECT MAX(version) FROM schema_migrations, 0 for an empty table
MaxVersion(recorded) ==
    IF recorded = {} THEN 0
    ELSE CHOOSE v \in recorded : \A w \in recorded : w <= v

\* runMigrations up to the loop: latestVersion and the directory listing.
\* versions: the files this build embeds; fail: an error of the first query
MigrateBegin(versions, fail) ==
    /\ migration.pc \in {"idle", "done", "failed"}
    /\ LET names == ReadDir({ FileName(v) : v \in versions })
           started == [NoMigration EXCEPT
                          !.files = names,
                          !.latestVersion = MaxVersion(schema_migrations),
                          !.rerun = /\ migration.pc = "done"
                                    /\ migration.files = names]
       IN  migration' = IF fail THEN [started EXCEPT !.pc = "failed"]
                        ELSE [started EXCEPT !.pc = "loop"]
    /\ UNCHANGED schema_migrations
    /\ UNCHANGED dbVars
    /\ UNCHANGED reqVars
    /\ UNCHANGED webVars
    /\ UNCHANGED adminVars

\* one turn of the loop over the files: the Exec of the file and the INSERT
\* of its version, each of which may return an error
MigrateFile(applyFails, recordFails) ==
    /\ migration.pc = "loop"
    /\ migration.next \in DOMAIN migration.files
    /\ LET version == ParseVersion(migration.files[migration.next])
           nextFile == [migration EXCEPT !.next = migration.next + 1]
       IN  IF ~IsPending(version, migration.latestVersion)
           THEN /\ migration' = nextFile
                /\ UNCHANGED schema_migrations
           ELSE IF applyFails
           THEN /\ migration' = [migration EXCEPT !.pc = "failed",
                                                  !.failedAt = version]
                /\ UNCHANGED schema_migrations
           ELSE IF recordFails
           THEN /\ migration' = [migration EXCEPT
                                    !.pc = "failed",
                                    !.applied = Append(migration.applied,
                                                       version)]
                /\ UNCHANGED schema_migrations
           ELSE /\ migration' = [nextFile EXCEPT
                                    !.applied = Append(migration.applied,
                                                       version)]
                /\ schema_migrations' = schema_migrations \cup {version}
    /\ UNCHANGED dbVars
    /\ UNCHANGED reqVars
    /\ UNCHANGED webVars
    /\ UNCHANGED adminVars

\* return nil after the last file
MigrateReturn ==
    /\ migration.pc = "loop"
    /\ migration.next \notin DOMAIN migration.files
    /\ migration' = [migration EXCEPT !.pc = "done"]
    /\ UNCHANGED schema_migrations
    /\ UNCHANGED dbVars
    /\ UNCHANGED reqVars
    /\ UNCHANGED webVars
    /\ UNCHANGED adminVars

MigrationInit ==
    /\ posts = EmptyTable
    /\ postsFts = EmptyIndex
    /\ nextPostId = 1
    /\ pages = EmptyTable
    /\ pagesFts = EmptyIndex
    /\ nextPageId = 1
    /\ tags = [n \in {} |-> 0]
    /\ postTags = {}
    /\ InitRequest

\* a build embeds the files of the build before it, and possibly more
MigrationStart ==
    \E versions \in SUBSET MigrationVersions, fail \in BOOLEAN :
        /\ versions # {}
        /\ \A i \in DOMAIN migration.files :
               ParseVersion(migration.files[i]) \in versions
        /\ MigrateBegin(versions, fail)

MigrationFile ==
    \E applyFails \in BOOLEAN, recordFails \in BOOLEAN :
        MigrateFile(applyFails, recordFails)

MigrationReturn == MigrateReturn

MigrationNext ==
    \/ MigrationStart
    \/ MigrationFile
    \/ MigrationReturn

MigrationSpec == MigrationInit /\ [][MigrationNext]_vars

-----------------------------------------------------------------------------
(* Properties *)

Range(seq) == { seq[i] : i \in DOMAIN seq }

CountOf(seq, c) == Len(SelectSeq(seq, LAMBDA x : x = c))

\* the place of result r in the list rs
PositionIn(rs, r) == CHOOSE i \in DOMAIN rs : rs[i] = r

\* the rowids a MATCH of the prepared query gives, when it is accepted
MatchedRowids(fts, query) ==
    UNION { m.rowids : m \in { x \in FtsMatch(fts, query) : ~x.err } }

\* C1: every result of a search is a post or page that is published when its
\* collection's query runs: the rows the posts query appends are rows of posts
\* with published = 1 in the state the query reads, likewise for pages, and the
\* list handed to the template holds nothing but those rows.
PublishedOnly ==
    [][ /\ (pc = "idle" /\ pc' = "pages") =>
               \A i \in DOMAIN postRows' :
                   /\ postRows'[i].Type = "post"
                   /\ postRows'[i].ID \in DOMAIN posts
                   /\ posts[postRows'[i].ID].published = 1
        /\ (pc = "pages" /\ pc' = "rendered") =>
               /\ \A i \in DOMAIN pageRows' :
                      /\ pageRows'[i].Type = "page"
                      /\ pageRows'[i].ID \in DOMAIN pages
                      /\ pages[pageRows'[i].ID].published = 1
               /\ Range(results') \subseteq Range(postRows) \cup Range(pageRows')
        /\ (pc = "idle" /\ pc' = "rendered") => results' = <<>>
      ]_vars

\* C1 witness: a search has rendered a result while an unpublished post whose
\* text matches the query is in the table, and no post is among the results.
PublishedOnlyWitness ==
    /\ pc = "rendered"
    /\ ~postErr
    /\ Len(results) >= 1
    /\ \A i \in DOMAIN results : results[i].Type = "page"
    /\ \E id \in DOMAIN posts :
           /\ posts[id].published = 0
           /\ id \in MatchedRowids(postsFts, ftsQuery)

\* C2: in the prepared query every '*' is the last character of a
\* whitespace-delimited token, no token holds more than one, and each token is
\* a word of the input without its '*' characters, alone or followed by the one
\* '*' the function appends.
WildcardsOnlyAppended ==
    pc = "prepared" =>
        LET out == Fields(ftsQuery)
            words == Fields(SelectSeq(q, LAMBDA c : c # "*"))
        IN  /\ \A i \in DOMAIN ftsQuery :
                   ftsQuery[i] = "*" =>
                       i = Len(ftsQuery) \/ IsSpace(ftsQuery[i + 1])
            /\ \A k \in DOMAIN out : CountOf(out[k], "*") <= 1
            /\ Len(out) = Len(words)
            /\ \A k \in DOMAIN out :
                   out[k] = words[k] \/ out[k] = Append(words[k], "*")

\* C2 witness: the input had a '*' inside a word and the prepared query ends
\* with an appended '*'.
WildcardsOnlyAppendedWitness ==
    /\ pc = "prepared"
    /\ \E i \in 1..(Len(q) - 1) :
           /\ q[i] = "*"
           /\ ~IsSpace(q[i + 1])
           /\ i > 1
           /\ ~IsSpace(q[i - 1])
    /\ ftsQuery # <<>>
    /\ ftsQuery[Len(ftsQuery)] = "*"

\* C3: the quoted phrase "exact phrase" is returned unchanged.
QuotedPhraseUnchanged ==
    (pc = "prepared" /\ q = ExactPhrase) => ftsQuery = ExactPhrase

\* C4: a request whose prepared query is empty renders no results and has
\* issued no index query.
EmptyPreparedIssuesNoQuery ==
    (pc # "idle" /\ ftsQuery = <<>>) => (issued = {} /\ results = <<>>)

\* C5: the sort is stable: two results of equal rank keep, in the sorted list,
\* the order they had in the concatenation of the post and page results.
SortIsStable ==
    pc = "rendered" =>
        LET input == postRows \o pageRows IN
        \A i, j \in DOMAIN input :
            (i < j /\ input[i].Rank = input[j].Rank) =>
                PositionIn(results, input[i]) < PositionIn(results, input[j])

\* C6: the list handed to the template is in ascending rank, whichever
\* collection each result came from.
ResultsSortedByRank ==
    pc = "rendered" =>
        \A i \in 1..(Len(results) - 1) : results[i].Rank <= results[i + 1].Rank

\* C6 witness: a page result of lower rank was moved in front of a post result.
ResultsSortedByRankWitness ==
    /\ pc = "rendered"
    /\ Len(results) = 2
    /\ results[1].Type = "page"
    /\ results[2].Type = "post"
    /\ results[1].Rank < results[2].Rank

\* C8: a request with a non-empty query issues both index queries and renders
\* with status 200 whether or not either fails; a failed collection contributes
\* no results and the results of the other one are all rendered.
CollectionsIndependent ==
    (pc = "rendered" /\ q # <<>>) =>
        /\ issued = {"posts", "pages"}
        /\ status = 200
        /\ postErr => postRows = <<>>
        /\ pageErr => pageRows = <<>>
        /\ Range(results) = Range(postRows) \cup Range(pageRows)
        /\ Len(results) = Len(postRows) + Len(pageRows)

\* C8 witness: the posts query failed and a page result is rendered.
CollectionsIndependentWitness ==
    /\ pc = "rendered"
    /\ postErr
    /\ ~pageErr
    /\ Len(results) >= 1
    /\ \E id \in DOMAIN posts :
           /\ posts[id].published = 1
           /\ id \in MatchedRowids(postsFts, ftsQuery)

\* C9: a search returns at most 50 post results and at most 50 page results,
\* so never more than 100 results.
ResultCountBounded ==
    /\ Len(postRows) <= 50
    /\ Len(pageRows) <= 50
    /\ Len(results) <= 100
    /\ total <= 100

\* C9 witness: both tables hold more than 50 published rows that match, and
\* the search has rendered 100 results.
ResultCountBoundedWitness ==
    /\ pc = "rendered"
    /\ Len(results) = 100
    /\ Cardinality({ id \in DOMAIN posts :
                       /\ posts[id].published = 1
                       /\ id \in MatchedRowids(postsFts, ftsQuery) }) > 50
    /\ Cardinality({ id \in DOMAIN pages :
                       /\ pages[id].published = 1
                       /\ id \in MatchedRowids(pagesFts, ftsQuery) }) > 50

IndexEntries(fts) == { <<id, fts[id]>> : id \in DOMAIN fts }

TableEntries(table) ==
    { <<id, { <<"title", t>> : t \in Tokenize(table[id].title) }
              \cup { <<"content", t>> : t \in Tokenize(table[id].content) }>> :
        id \in DOMAIN table }

\* C10: the entries of posts_fts are those of the rows of posts, and the
\* entries of pages_fts those of the rows of pages, after any inserts, updates
\* and deletes.
IndexMirrorsTable ==
    /\ IndexEntries(postsFts) = TableEntries(posts)
    /\ IndexEntries(pagesFts) = TableEntries(pages)

\* AND, OR or NOT in any letter case
KeywordAnyCase(tok) ==
    ToUpper(tok) \in { <<"A", "N", "D">>, <<"O", "R">>, <<"N", "O", "T">> }

\* the token both starts and ends with a double quote
QuoteDelimited(tok) == tok # <<>> /\ tok[1] = "\"" /\ tok[Len(tok)] = "\""

\* the input without its '*' characters, split at whitespace: the tokens the
\* function classifies
StrippedTokens(s) == Fields(SelectSeq(s, LAMBDA c : c # "*"))

\* C11: for an input without '*' whose tokens are neither AND/OR/NOT in any
\* letter case nor delimited by double quotes, the prepared query is those
\* tokens in order, each followed by '*', joined by exactly one space, whatever
\* whitespace the input had around and between them.
PlainTokensGetWildcard ==
    pc = "prepared" =>
        LET toks == Fields(q) IN
        ( /\ \A i \in DOMAIN q : q[i] # "*"
          /\ \A k \in DOMAIN toks :
                 ~KeywordAnyCase(toks[k]) /\ ~QuoteDelimited(toks[k]) )
        => ftsQuery = Join([k \in DOMAIN toks |-> Append(toks[k], "*")],
                           <<" ">>)

\* C11 witness: an input of two plain tokens with leading or doubled
\* whitespace has been prepared into the two tokens with one space between.
PlainTokensGetWildcardWitness ==
    /\ pc = "prepared"
    /\ q \in { <<" ", "a", " ", "o">>, <<"a", " ", " ", "o">> }
    /\ ftsQuery = <<"a", "*", " ", "o", "*">>

\* C12: every token of the input that is AND, OR or NOT in any letter case is
\* a token of the prepared query with its letters as typed and no '*' after
\* it, at its place among the tokens that survive the removal of '*'.
OperatorsUntouched ==
    pc = "prepared" =>
        LET kept == SelectSeq(Fields(q),
                              LAMBDA t : SelectSeq(t, LAMBDA c : c # "*") # <<>>)
            out == Fields(ftsQuery)
        IN  /\ Len(out) = Len(kept)
            /\ \A k \in DOMAIN kept :
                   KeywordAnyCase(kept[k]) => out[k] = kept[k]

\* C12 witness: the mixed-case operator oR stands between or beside other
\* tokens and is in the prepared query as typed.
OperatorsUntouchedWitness ==
    /\ pc = "prepared"
    /\ Len(Fields(q)) >= 2
    /\ Len(Fields(ftsQuery)) = Len(Fields(q))
    /\ \E k \in DOMAIN Fields(q) :
           /\ Fields(q)[k] = <<"o", "R">>
           /\ Fields(ftsQuery)[k] = <<"o", "R">>

\* C13: the prepared query is empty for every input that is empty or made of
\* whitespace only.
WhitespaceGivesEmpty ==
    (pc = "prepared" /\ \A i \in DOMAIN q : q[i] \in {" ", "\t", "\n"})
        => ftsQuery = <<>>

\* C13 witness: an input of a tab, a blank and a newline has been prepared.
WhitespaceGivesEmptyWitness ==
    /\ pc = "prepared"
    /\ q = <<"\t", " ", "\n">>
    /\ ftsQuery = <<>>

\* C14: '*' is removed before the input is split and before the tokens are
\* classified: a*b gives ab*, the prepared query has one token for each token
\* of the input without its '*', and a token that is AND/OR/NOT once its '*'
\* are removed is passed through as an operator.
WildcardsRemovedFirst ==
    pc = "prepared" =>
        LET words == StrippedTokens(q)
            out == Fields(ftsQuery)
        IN  /\ q = <<"a", "*", "b">> => ftsQuery = <<"a", "b", "*">>
            /\ Len(out) = Len(words)
            /\ \A k \in DOMAIN words :
                   KeywordAnyCase(words[k]) => out[k] = words[k]

\* C14 witness: an input token that holds a '*' inside and is an operator only
\* without it has been prepared into that operator.
WildcardsRemovedFirstWitness ==
    /\ pc = "prepared"
    /\ q \in { <<"o", "*", "R">>, <<"n", "*", "o", "T">> }
    /\ ftsQuery = SelectSeq(q, LAMBDA c : c # "*")

\* C19: of the tokens the function classifies, every one that both starts and
\* ends with a double quote, the single double quote included, is in the
\* prepared query unchanged, and every one that is neither such a token nor
\* AND/OR/NOT is there with exactly one '*' appended.
QuotedTokensUnchanged ==
    pc = "prepared" =>
        LET words == StrippedTokens(q)
            out == Fields(ftsQuery)
        IN  /\ Len(out) = Len(words)
            /\ \A k \in DOMAIN words :
                   /\ QuoteDelimited(words[k]) => out[k] = words[k]
                   /\ (~QuoteDelimited(words[k]) /\ ~KeywordAnyCase(words[k]))
                          => /\ out[k] = Append(words[k], "*")
                             /\ CountOf(out[k], "*") = 1

\* C19 witness: the input holds a token that is a single double quote and a
\* plain token; the first is prepared unchanged, the second with a '*'.
QuotedTokensUnchangedWitness ==
    /\ pc = "prepared"
    /\ \E j, k \in DOMAIN StrippedTokens(q) :
           /\ StrippedTokens(q)[j] = <<"\"">>
           /\ Fields(ftsQuery)[j] = <<"\"">>
           /\ StrippedTokens(q)[k] = <<"a">>
           /\ Fields(ftsQuery)[k] = <<"a", "*">>

\* C17: a step of a search request (anything that moves the request) leaves
\* the posts, pages, tags and post_tags tables, both indexes and the id
\* counters as they were, for every query.
SearchIsReadOnly ==
    [][reqVars' # reqVars => dbVars' = dbVars]_vars

\* C17 witness: a search has rendered a post and a page out of tables that hold
\* them, with a tag linked to a post.
SearchIsReadOnlyWitness ==
    /\ pc = "rendered"
    /\ q # <<>>
    /\ Len(postRows) >= 1
    /\ Len(pageRows) >= 1
    /\ postTags # {}

\* C18: the sorted list is a permutation of the post results followed by the
\* page results (every result is there as often as it was retrieved), and
\* Total is the number of rows retrieved from both collections.
SortIsPermutation ==
    pc = "rendered" =>
        LET input == postRows \o pageRows IN
        /\ Len(results) = Len(input)
        /\ \A r \in Range(input) \cup Range(results) :
               CountOf(results, r) = CountOf(input, r)
        /\ total = Len(postRows) + Len(pageRows)

\* C18 witness: post and page results with a rank in common have been sorted
\* into an order other than that of their retrieval.
SortIsPermutationWitness ==
    /\ pc = "rendered"
    /\ Len(postRows) >= 1
    /\ Len(pageRows) >= 1
    /\ Len(results) >= 3
    /\ results # postRows \o pageRows
    /\ \E i, j \in DOMAIN results : i # j /\ results[i].Rank = results[j].Rank

\* the published rows of a table that the prepared query matches
PublishedMatches(table, fts, query) ==
    { id \in DOMAIN table :
        table[id].published = 1 /\ id \in MatchedRowids(fts, query) }

\* C20: every post result carries the names of the tags that post_tags links
\* to its id when the posts query runs, each once and in ascending order, or
\* no name when its tag lookup failed; a failed lookup neither drops the
\* result (the post results are all the published matching posts) nor fails
\* the request; a page result carries no tags, and the rendered results are
\* the post and page results with the tags they were given.
ResultsCarryTags ==
    [][ /\ (pc = "idle" /\ pc' = "pages") =>
               /\ \A i \in DOMAIN postRows' :
                      LET r == postRows'[i]
                          linked == { n \in DOMAIN tags :
                                        <<r.ID, tags[n]>> \in postTags }
                      IN  /\ r.Type = "post"
                          /\ r.ID \notin tagErrs' =>
                                 /\ Range(r.Tags) = linked
                                 /\ Len(r.Tags) = Cardinality(linked)
                                 /\ \A a, b \in DOMAIN r.Tags :
                                        a < b => NameLess(r.Tags[a], r.Tags[b])
                          /\ r.ID \in tagErrs' => r.Tags = <<>>
               /\ ~postErr' =>
                      { postRows'[i].ID : i \in DOMAIN postRows' }
                          = PublishedMatches(posts, postsFts, ftsQuery')
        /\ (pc = "pages" /\ pc' = "rendered") =>
               /\ \A i \in DOMAIN pageRows' :
                      pageRows'[i].Type = "page" /\ pageRows'[i].Tags = <<>>
               /\ Range(results') = Range(postRows) \cup Range(pageRows')
               /\ status' = 200
      ]_vars

\* C20 witness: the rendered results hold a post with two tags in ascending
\* order that were linked in the opposite order, a post whose tags are linked
\* but whose lookup failed, and a page.
ResultsCarryTagsWitness ==
    /\ pc = "rendered"
    /\ \E i, j, k \in DOMAIN results :
           /\ results[i].Type = "post"
           /\ results[i].Tags = << <<"s">>, <<"t">> >>
           /\ results[j].Type = "post"
           /\ results[j].ID \in tagErrs
           /\ \E l \in postTags : l[1] = results[j].ID
           /\ results[j].Tags = <<>>
           /\ results[k].Type = "page"

\* C15: a handler behind requireAuth runs only for a request whose auth_token
\* cookie holds a value that a successful login has issued; a request with any
\* other cookie value is redirected to /login and the handler does not run.
AdminNeedsIssuedToken ==
    /\ pc = "handler" => (cookie # <<>> /\ cookie[1] \in authTokens)
    /\ (route \in {"GET /admin", "POST /admin/posts/delete"}
            /\ (cookie = <<>> \/ cookie[1] \notin authTokens))
           => (pc = "redirected" /\ status = 303)

\* C16: every row a public handler shows (home, post list, post detail, tag
\* posts, now, page, RSS feed, sitemap) has its published flag at 1.
PublicShowsPublishedOnly ==
    \A r \in shown :
        IF r.Type = "post" THEN posts[r.ID].published = 1
        ELSE pages[r.ID].published = 1

\* the rows carry the ranks that rankOf gives their ids
RanksFrom(rows, rankOf) ==
    \A i \in DOMAIN rows : rows[i].Rank = rankOf[rows[i].ID]

\* no published match left out of rows has a rank below that of a row in rows
LowestKept(rows, matches, rankOf) ==
    \A id \in matches \ { rows[i].ID : i \in DOMAIN rows } :
        \A i \in DOMAIN rows : ~(rankOf[id] < rows[i].Rank)

\* C21: when a collection has more than 50 published rows that match, the 50
\* results kept for it are 50 of lowest rank: no published match that was left
\* out has a rank strictly below that of a result of the same collection.
LowestRanksKept ==
    \A rankOf \in LoadRanks :
        /\ (pc \in {"pages", "rendered"} /\ ~postErr
                /\ RanksFrom(postRows, rankOf))
               => LowestKept(postRows,
                             PublishedMatches(posts, postsFts, ftsQuery), rankOf)
        /\ (pc = "rendered" /\ ~pageErr /\ RanksFrom(pageRows, rankOf))
               => LowestKept(pageRows,
                             PublishedMatches(pages, pagesFts, ftsQuery), rankOf)

\* C21 witness: more than 50 published posts match, 50 are kept, they are not
\* all of one rank, and a match of the highest rank was left out.
LowestRanksKeptWitness ==
    /\ pc = "rendered"
    /\ ~postErr
    /\ Cardinality(PublishedMatches(posts, postsFts, ftsQuery)) > 50
    /\ Len(postRows) = 50
    /\ \E i, j \in DOMAIN postRows : postRows[i].Rank < postRows[j].Rank
    /\ \E id \in PublishedMatches(posts, postsFts, ftsQuery) :
           \A i \in DOMAIN postRows : postRows[i].ID # id

\* C22: prepareFTSQuery is idempotent: applied to a query it has prepared, it
\* returns that query.
PrepareIsIdempotent ==
    pc = "reprepared" => ftsQuery = q

\* C22 witness: a prepared query with an appended '*', an operator and a quote
\* has been prepared a second time.
PrepareIsIdempotentWitness ==
    /\ pc = "reprepared"
    /\ q \in { <<"a", "*", " ", "o", "R">>, <<"\"", " ", "a", "*">> }
    /\ ftsQuery = q


\* the routes of the admin handlers that change state on a POST
AdminPostRoutes ==
    { "POST /login", "POST /admin/posts/new", "POST /admin/posts/edit/{id}",
      "POST /admin/posts/delete", "POST /admin/pages/new",
      "POST /admin/pages/edit/{id}", "POST /admin/pages/delete",
      "POST /admin/media/new" }

\* C23: every admin handler that changes state on a POST checks the CSRF
\* token first: a request whose csrf_token is not the application's token is
\* answered 403, and writes nothing to the database and uploads nothing.
CsrfCheckedFirst ==
    [][(route' \in AdminPostRoutes /\ form'.csrf_token # CsrfToken)
          => (status' = 403 /\ dbVars' = dbVars /\ uploads' = uploads)]_vars


\* C24: after handleLogout, a request that presents the auth_token issued by
\* the earlier login is not admitted by requireAuth: no handler behind it
\* runs for a token that was logged out and not issued again.
LogoutEndsSession ==
    (pc = "handler" /\ route \in {"GET /admin", "POST /admin/posts/delete"})
        => cookie[1] \notin loggedOut


\* the distinct non-empty names of a comma-separated tags value, trimmed
ExpectedNames(tagsStr) ==
    { TrimSpace(Split(tagsStr, ",")[i]) :
        i \in DOMAIN Split(tagsStr, ",") } \ { <<>> }

TagsReadWhole ==
    [][(pc = "idle" /\ pc' # "idle" /\ edit.pc \in {"unlink", "link"})
          => \A i \in DOMAIN postRows' :
                 (postRows'[i].ID = form.id /\ postRows'[i].ID \notin tagErrs')
                     => postRows'[i].Tags \in
                            { getPostTags(form.id, edit.before.tags,
                                          edit.before.postTags, FALSE),
                              NamesAscending(ExpectedNames(form.tags)) }]_vars

\* C27: a POST to the edit-post handler whose id is missing, not a number or
\* the id of no post leaves the posts, tags and post_tags tables as they were.
EditOfMissingPostWritesNothing ==
    (edit.pc = "done" /\ form.id \notin DOMAIN edit.before.posts)
        => /\ posts = edit.before.posts
           /\ tags = edit.before.tags
           /\ postTags = edit.before.postTags


\* the versions of the files of a directory listing
VersionsOf(files) == { ParseVersion(files[i]) : i \in DOMAIN files }

\* C28: a run of runMigrations that returns nil has applied exactly the
\* files whose version is greater than the highest version recorded in
\* schema_migrations when it started, each once, and has recorded each of
\* them; run again with the same files, it applies nothing.
AppliesPendingOnly ==
    migration.pc = "done" =>
        /\ Range(migration.applied)
               = { v \in VersionsOf(migration.files) :
                     v > migration.latestVersion }
        /\ Len(migration.applied) = Cardinality(Range(migration.applied))
        /\ Range(migration.applied) \subseteq schema_migrations
        /\ migration.rerun => migration.applied = <<>>

\* C28 witness: version 1 was recorded, the build embeds the files 1, 2 and
\* 10, and the run has returned nil after applying 2 and 10 only.
AppliesPendingOnlyWitness ==
    /\ migration.pc = "done"
    /\ migration.latestVersion = 1
    /\ VersionsOf(migration.files) = {1, 2, 10}
    /\ Range(migration.applied) = {2, 10}
    /\ schema_migrations = {1, 2, 10}

\* C29: runMigrations applies the pending migrations in strictly ascending
\* numeric order of their versions, versions of 10 and above included, and
\* stops at the first failure: the failed version is not recorded and no
\* later file is applied.
AppliedInVersionOrder ==
    /\ \A i, j \in DOMAIN migration.applied :
           i < j => migration.applied[i] < migration.applied[j]
    /\ (migration.pc = "failed" /\ migration.failedAt # 0)
           => /\ migration.failedAt \notin schema_migrations
              /\ \A i \in DOMAIN migration.applied :
                     PositionIn(migration.files, FileName(migration.applied[i]))
                         < migration.next
              /\ ParseVersion(migration.files[migration.next])
                     = migration.failedAt

=============================================================================
